---- MODULE Spec2Model ----
(***************************************************************************)
(* AITrader market-data aggregation pipeline:                              *)
(*   - OICacheManager (utils): bounded per-symbol open-interest history    *)
(*   - CalculateMarketData and the strategy indicator pipelines            *)
(*   - the poll scheduler of main (two tickers, sequential fan-out)        *)
(*                                                                         *)
(* Units.  float64 quantities are modelled as scaled integers:             *)
(*   open interest in the cache, OICurrent : hundredths of a million USD   *)
(*   OIMetrics.Current                     : whole USD                     *)
(*   change rates, funding percentages     : hundredths of a percent       *)
(*   raw funding rates                     : millionths                    *)
(* A Go pointer is a sequence of length 0 (nil) or 1 (the pointee).        *)
(***************************************************************************)
EXTENDS Integers, Sequences, FiniteSets, TLC

VARIABLES
    \* ---- utils.OICacheManager
    caches,      \* m.caches : symbol -> [Symbol, History, Timestamps]
    maxSize,     \* m.maxSize
    calls,       \* history variable: every Update call so far, per symbol, in lock order, oldest first
    \* ---- one call of the indicator pipeline
    pin,         \* the inputs of the call
    pout,        \* what the call did: not yet called, returned, or panicked
    \* ---- main: configuration, position of the main goroutine, locals
    cfg,         \* cfg.Accounts
    pc,          \* "initial", "select", "short", "long", "exited", "panicked", "killed"
    step,        \* position inside a pass: "acct", "klines", "get", "calc", "update", "emit", "ret"
    ai,          \* index of the account in cfg.GetEnabledAccounts()
    si,          \* index of the symbol in symbols
    klines,      \* lengths of the three candle series fetched for the pair
    indicatorOICache, \* indicatorOICache of the pair
    result,      \* result of the pair
    \* ---- main: tickers, signal channel, clock
    shortPending, \* a tick waits in shortTermTicker.C
    longPending,  \* a tick waits in longTermTicker.C
    sigPending,   \* a signal waits in sigChan
    notified,     \* signal.Notify was called
    tickersArmed, \* the tickers run
    clock,        \* time in poll intervals of the short ticker
    \* ---- history variables of the scheduler
    tags,          \* per symbol, who wrote each history entry: [pass, acct, cls]
    readTags,      \* the tags of the history the pair read
    passNo,        \* passes started so far (0: the initial pass)
    outcome,       \* per symbol, what happened in the current process...Strategy call
    updatesInPass, \* per symbol, Update calls in the current pass
    okCount,       \* per symbol, snapshots with market data emitted so far
    errCount,      \* per-pair errors so far
    \* ---- callers of the OICacheManager API
    unixNow,     \* time.Now().Unix()
    ret,         \* the last API call and what it returned
    mu,          \* m.mu: the goroutine that holds the write lock, or "" when free
    gs,          \* per goroutine: position, arguments and locals
    \* ---- the cache manager at the level of pointers and slices
    heap,        \* backing arrays, OICache objects and the map m.caches
    held         \* what callers hold: snapshots, the map GetAll returned

cacheVars == <<caches, maxSize, calls>>
pipeVars  == <<pin, pout>>
mainVars  == <<cfg, pc, step, ai, si, klines, indicatorOICache, result>>
envVars   == <<shortPending, longPending, sigPending, notified, tickersArmed, clock>>
histVars  == <<tags, readTags, passNo, outcome, updatesInPass, okCount, errCount>>
schedVars == <<mainVars, envVars, histVars>>
apiVars   == <<unixNow, ret, mu, gs>>
heapVars  == <<heap, held>>
vars      == <<cacheVars, pipeVars, schedVars, apiVars, heapVars>>

\* ------------------------------------------------------------------ bounds
MaxUpdates == 6        \* Update calls in one behaviour of SpecCache

\* ------------------------------------------------------------- pointers
Nil        == <<>>
Ptr(x)     == <<x>>
Deref(p)   == p[1]

Min(a, b)  == IF a < b THEN a ELSE b
Prefix(s, n) == SubSeq(s, 1, Min(n, Len(s)))

\* =========================================================================
\* utils.OICacheManager
\* =========================================================================
Keys       == {"BTCUSDT", "ETHUSDT"}
OIValues   == {10, 11}
Times      == {1, 2}
SizeArgs   == {0, 2, 5}      \* arguments given to NewOICacheManager

DefaultMaxSize == 5

\* NewOICacheManager(maxSize): a non-positive bound is replaced by 5.
\* The map of caches starts empty.
NewOICacheManager(n) ==
    [caches  |-> <<>>,
     maxSize |-> IF n <= 0 THEN DefaultMaxSize ELSE n]

\* the map m.caches is a function whose domain is the set of cached symbols
HasKey(m, symbol) == symbol \in DOMAIN m

MapPut(m, k, v) == [x \in (DOMAIN m) \cup {k} |-> IF x = k THEN v ELSE m[x]]

\* Get(symbol): nil for an unknown symbol, otherwise the cache of the symbol.
Get(m, symbol) ==
    IF ~HasKey(m, symbol) THEN Nil ELSE Ptr(m[symbol])

UpdateAppendsAtEnd(m, size, symbol, oi, timestamp) ==
    LET cache == IF HasKey(m, symbol) THEN m[symbol]
                 ELSE [Symbol |-> symbol, History |-> <<>>, Timestamps |-> <<>>]
        h == cache.History \o <<oi>>
        t == cache.Timestamps \o <<timestamp>>
    IN  MapPut(m, symbol, [Symbol |-> symbol,
                            History |-> Prefix(h, size),
                            Timestamps |-> Prefix(t, size)])

\* Update(symbol, oi, timestamp): create the cache of an unknown symbol,
\* prepend the new value and timestamp, cut both slices to maxSize.
UpdateTruncatesHistoryOnly(m, size, symbol, oi, timestamp) ==
    LET cache == IF HasKey(m, symbol) THEN m[symbol]
                 ELSE [Symbol |-> symbol, History |-> <<>>, Timestamps |-> <<>>]
        h == <<oi>> \o cache.History
        t == <<timestamp>> \o cache.Timestamps
    IN  MapPut(m, symbol,
               [Symbol     |-> symbol,
                History    |-> IF Len(h) > size THEN SubSeq(h, 1, size) ELSE h,
                Timestamps |-> t])

Update(m, size, symbol, oi, timestamp) ==
    LET cache == IF HasKey(m, symbol) THEN m[symbol]
                 ELSE [Symbol |-> symbol, History |-> <<>>, Timestamps |-> <<>>]
        h == <<oi>> \o cache.History
        t == <<timestamp>> \o cache.Timestamps
    IN  MapPut(m, symbol,
               [Symbol     |-> symbol,
                History    |-> IF Len(h) > size THEN SubSeq(h, 1, size) ELSE h,
                Timestamps |-> IF Len(h) > size THEN SubSeq(t, 1, size) ELSE t])

\* =========================================================================
\* indicators: market data and the two strategy pipelines
\* =========================================================================
MaxHist == 5           \* longest history handed to CalculateMarketData in SpecPipe

MinKlines == 55

Abs(a) == IF a < 0 THEN -a ELSE a

\* math.Round(a / b) for b # 0: to the nearest integer, halves away from zero
RoundDiv(a, b) ==
    LET q == (2 * Abs(a) + Abs(b)) \div (2 * Abs(b))
    IN  IF (a < 0) = (b < 0) THEN q ELSE -q

\* formatPrice(usd / 1000000): whole USD to hundredths of a million USD
formatPrice(usd) == RoundDiv(usd, 10000)

\* formatPercent(rate * 100): a sum of `count` raw rates (millionths) to the
\* average percentage, in hundredths of a percent
formatPercent(sum, count) == RoundDiv(sum, 100 * count)

\* what the exchange answers for one symbol
Contracts    == {1000, 2001}
ClosePrice   == 5000
OIResponses  == {[kind |-> "err", val |-> 0], [kind |-> "bad", val |-> 0]}
                \cup {[kind |-> "ok", val |-> c] : c \in Contracts}
PremiumResponses == {[kind |-> "err", val |-> 0], [kind |-> "bad", val |-> 0],
                     [kind |-> "ok", val |-> 150]}
HistResponses == {[kind |-> "err", val |-> <<>>],
                  [kind |-> "ok", val |-> <<>>],
                  [kind |-> "ok", val |-> <<[ok |-> TRUE, rate |-> 100],
                                            [ok |-> FALSE, rate |-> 0],
                                            [ok |-> TRUE, rate |-> 300]>>]}
Responses == [oi : OIResponses, premium : PremiumResponses, hist : HistResponses]

calculateOIChangeRateReversed(currentUsd, previous) ==
    IF previous = 0 THEN 0
    ELSE RoundDiv(previous * 10000 - currentUsd, previous)

\* calculateOIChangeRate(current, previous): current in whole USD (the code
\* passes oiMetrics.Current/1000000 unrounded), previous in hundredths of a
\* million USD; the result is formatPercent'ed, in hundredths of a percent.
calculateOIChangeRate(currentUsd, previous) ==
    IF previous = 0 THEN 0
    ELSE RoundDiv(currentUsd - previous * 10000, previous)

\* CalculateOIMetrics: nil on a fetch or parse error, otherwise
\* Current = formatPrice(contracts * price), in whole USD
CalculateOIMetrics(resp, currentPrice) ==
    IF resp.oi.kind = "err" THEN Nil
    ELSE IF resp.oi.kind = "bad" THEN Nil
    ELSE Ptr([Current |-> resp.oi.val * currentPrice])

RECURSIVE SumRates(_)
SumRates(rs) == IF rs = <<>> THEN 0
                ELSE (IF rs[1].ok THEN rs[1].rate ELSE 0) + SumRates(Tail(rs))
RECURSIVE CountRates(_)
CountRates(rs) == IF rs = <<>> THEN 0
                  ELSE (IF rs[1].ok THEN 1 ELSE 0) + CountRates(Tail(rs))

CalculateFundingMetricsNilOnHistoryError(resp) ==
    IF resp.premium.kind # "ok" \/ resp.hist.kind = "err" THEN Nil
    ELSE LET sum   == SumRates(resp.hist.val)
             count == CountRates(resp.hist.val)
         IN  Ptr([Current |-> formatPercent(resp.premium.val, 1),
                  Avg3    |-> IF count > 0 THEN formatPercent(sum, count) ELSE 0])

\* CalculateFundingMetrics: nil when the current rate cannot be fetched or
\* parsed; when only the history fetch fails, the current rate with Avg3 = 0.
CalculateFundingMetrics(resp) ==
    IF resp.premium.kind = "err" THEN Nil
    ELSE IF resp.premium.kind = "bad" THEN Nil
    ELSE IF resp.hist.kind = "err"
         THEN Ptr([Current |-> formatPercent(resp.premium.val, 1), Avg3 |-> 0])
    ELSE LET sum   == SumRates(resp.hist.val)
             count == CountRates(resp.hist.val)
         IN  Ptr([Current |-> formatPercent(resp.premium.val, 1),
                  Avg3    |-> IF count > 0 THEN formatPercent(sum, count) ELSE 0])

\* the market data with the new value put into the history before the
\* change rates are computed (what UpdateOICache would do when called first)
CalculateMarketDataSelfReferential(resp, currentPrice, oiCache) ==
    LET oiMetrics      == CalculateOIMetrics(resp, currentPrice)
        fundingMetrics == CalculateFundingMetrics(resp)
    IN
    IF oiMetrics = Nil \/ fundingMetrics = Nil THEN Nil
    ELSE
      LET cur  == Deref(oiMetrics).Current
          hist == <<formatPrice(cur)>> \o (IF oiCache = Nil THEN <<>> ELSE Deref(oiCache).History)
      IN  Ptr([OICurrent   |-> formatPrice(cur),
               FundingRate |-> Deref(fundingMetrics).Current,
               FundingAvg3 |-> Deref(fundingMetrics).Avg3,
               OIHistory   |-> hist,
               OIChange5m  |-> IF Len(hist) >= 2
                               THEN Ptr(calculateOIChangeRate(cur, hist[1])) ELSE Nil,
               OIChange15m |-> IF Len(hist) >= 4
                               THEN Ptr(calculateOIChangeRate(cur, hist[3])) ELSE Nil,
               OIChange25m |-> IF Len(hist) >= 5
                               THEN Ptr(calculateOIChangeRate(cur, hist[5])) ELSE Nil,
               OIChange45m |-> IF Len(hist) >= 5
                               THEN Ptr(calculateOIChangeRate(cur, hist[5])) ELSE Nil,
               OIChange75m |-> Nil])

CalculateMarketDataFills75m(resp, currentPrice, oiCache) ==
    LET oiMetrics      == CalculateOIMetrics(resp, currentPrice)
        fundingMetrics == CalculateFundingMetrics(resp)
    IN
    IF oiMetrics = Nil THEN Nil
    ELSE IF fundingMetrics = Nil THEN Nil
    ELSE
      LET cur     == Deref(oiMetrics).Current
          hasHist == oiCache # Nil /\ Len(Deref(oiCache).History) > 0
          hist    == IF hasHist THEN Deref(oiCache).History ELSE <<>>
      IN  Ptr([OICurrent   |-> formatPrice(cur),
               FundingRate |-> Deref(fundingMetrics).Current,
               FundingAvg3 |-> Deref(fundingMetrics).Avg3,
               OIHistory   |-> hist,
               OIChange5m  |-> IF hasHist /\ Len(hist) >= 2
                               THEN Ptr(calculateOIChangeRate(cur, hist[1])) ELSE Nil,
               OIChange15m |-> IF hasHist /\ Len(hist) >= 4
                               THEN Ptr(calculateOIChangeRate(cur, hist[3])) ELSE Nil,
               OIChange25m |-> IF hasHist /\ Len(hist) >= 5
                               THEN Ptr(calculateOIChangeRate(cur, hist[5])) ELSE Nil,
               OIChange45m |-> IF hasHist /\ Len(hist) >= 5
                               THEN Ptr(calculateOIChangeRate(cur, hist[5])) ELSE Nil,
               OIChange75m |-> IF hasHist /\ Len(hist) >= 5
                               THEN Ptr(calculateOIChangeRate(cur, hist[5])) ELSE Nil])

\* CalculateMarketData(client, symbol, currentPrice, oiCache)
CalculateMarketData(resp, currentPrice, oiCache) ==
    LET oiMetrics      == CalculateOIMetrics(resp, currentPrice)
        fundingMetrics == CalculateFundingMetrics(resp)
    IN
    IF oiMetrics = Nil THEN Nil
    ELSE IF fundingMetrics = Nil THEN Nil
    ELSE
      LET cur     == Deref(oiMetrics).Current
          hasHist == oiCache # Nil /\ Len(Deref(oiCache).History) > 0
          hist    == IF hasHist THEN Deref(oiCache).History ELSE <<>>
      IN  Ptr([OICurrent   |-> formatPrice(cur),
               FundingRate |-> Deref(fundingMetrics).Current,
               FundingAvg3 |-> Deref(fundingMetrics).Avg3,
               OIHistory   |-> hist,
               OIChange5m  |-> IF hasHist /\ Len(hist) >= 2
                               THEN Ptr(calculateOIChangeRate(cur, hist[1])) ELSE Nil,
               OIChange15m |-> IF hasHist /\ Len(hist) >= 4
                               THEN Ptr(calculateOIChangeRate(cur, hist[3])) ELSE Nil,
               OIChange25m |-> IF hasHist /\ Len(hist) >= 5
                               THEN Ptr(calculateOIChangeRate(cur, hist[5])) ELSE Nil,
               OIChange45m |-> IF hasHist /\ Len(hist) >= 5
                               THEN Ptr(calculateOIChangeRate(cur, hist[5])) ELSE Nil,
               OIChange75m |-> Nil])

\* calculateTimeframeData: nil for an empty series, otherwise the block of
\* the timeframe (its indicator values are the indicator library's)
calculateTimeframeData(n, timeframe) ==
    IF n = 0 THEN Nil
    ELSE Ptr([timeframe |-> timeframe, ClosePrice |-> ClosePrice])

CalculateShortTermIndicatorsChecksTwoSeries(symbol, n1h, n15m, n5m, now) ==
    IF n1h < MinKlines \/ n15m < MinKlines THEN Nil
    ELSE Ptr([Symbol     |-> symbol,
              Timestamp  |-> now,
              MarketData |-> Nil,
              Timeframes |-> <<calculateTimeframeData(n1h, "1h"),
                               calculateTimeframeData(n15m, "15m"),
                               calculateTimeframeData(n5m, "5m")>>])

\* CalculateShortTermIndicators: nil when a series has fewer than 55 candles
CalculateShortTermIndicators(symbol, n1h, n15m, n5m, now) ==
    IF n1h < MinKlines \/ n15m < MinKlines \/ n5m < MinKlines THEN Nil
    ELSE Ptr([Symbol     |-> symbol,
              Timestamp  |-> now,
              MarketData |-> Nil,
              Timeframes |-> <<calculateTimeframeData(n1h, "1h"),
                               calculateTimeframeData(n15m, "15m"),
                               calculateTimeframeData(n5m, "5m")>>])

CalculateLongTermIndicatorsWithoutLengthCheck(symbol, n4h, n1h, n15m, now) ==
    Ptr([Symbol     |-> symbol,
         Timestamp  |-> now,
         MarketData |-> Nil,
         Timeframes |-> <<calculateTimeframeData(n4h, "4h"),
                          calculateTimeframeData(n1h, "1h"),
                          calculateTimeframeData(n15m, "15m")>>])

\* CalculateLongTermIndicators: nil when a series has fewer than 55 candles
CalculateLongTermIndicators(symbol, n4h, n1h, n15m, now) ==
    IF n4h < MinKlines \/ n1h < MinKlines \/ n15m < MinKlines THEN Nil
    ELSE Ptr([Symbol     |-> symbol,
              Timestamp  |-> now,
              MarketData |-> Nil,
              Timeframes |-> <<calculateTimeframeData(n4h, "4h"),
                               calculateTimeframeData(n1h, "1h"),
                               calculateTimeframeData(n15m, "15m")>>])

\* what a call did: it returned `result`, or it panicked
Returned(r)      == [panicked |-> FALSE, result |-> r]
Panicked         == [panicked |-> TRUE,  result |-> Nil]

\* The body shared by the two ...WithMarket functions after the base
\* indicators were computed: the market data is attached when it is not nil,
\* and the closing log line reads marketData.OICurrent and
\* marketData.FundingRate whether or not marketData is nil: a nil pointer
\* dereference, which panics.
AttachMarketData(indicators, resp, oiCache) ==
    IF indicators = Nil THEN Returned(Nil)
    ELSE LET currentPrice == Deref(Deref(indicators).Timeframes[3]).ClosePrice
             marketData   == CalculateMarketData(resp, currentPrice, oiCache)
         IN  IF marketData = Nil THEN Panicked
             ELSE Returned(Ptr([Deref(indicators) EXCEPT !.MarketData = marketData]))

CalculateShortTermIndicatorsWithMarket(symbol, n1h, n15m, n5m, resp, oiCache, now) ==
    AttachMarketData(CalculateShortTermIndicators(symbol, n1h, n15m, n5m, now),
                     resp, oiCache)

CalculateLongTermIndicatorsWithMarket(symbol, n4h, n1h, n15m, resp, oiCache, now) ==
    AttachMarketData(CalculateLongTermIndicators(symbol, n4h, n1h, n15m, now),
                     resp, oiCache)


\* ---- the pipeline variables, idle in the cache specification
NotCalled == [state |-> "idle", fn |-> "", result |-> Nil]
PipeIdle  == pin = <<>> /\ pout = NotCalled

\* ---- the scheduler variables, idle in the cache and pipeline specifications
SchedIdle ==
    /\ cfg = <<>> /\ pc = "idle" /\ step = "" /\ ai = 0 /\ si = 0
    /\ klines = <<>> /\ indicatorOICache = Nil /\ result = Nil
    /\ shortPending = FALSE /\ longPending = FALSE /\ sigPending = FALSE
    /\ notified = FALSE /\ tickersArmed = FALSE /\ clock = 0
    /\ tags = <<>> /\ readTags = <<>> /\ passNo = 0 /\ outcome = <<>>
    /\ updatesInPass = <<>> /\ okCount = <<>> /\ errCount = 0

\* ---- the API callers, idle in the other specifications
ApiIdle == unixNow = 0 /\ ret = <<>> /\ mu = "" /\ gs = <<>>

\* ---- the pointer-level variables, idle in the other specifications
HeapIdle == heap = <<>> /\ held = <<>>

\* ---- specification of the cache manager alone
TotalCalls == LET S == DOMAIN calls
                  RECURSIVE Sum(_)
                  Sum(T) == IF T = {} THEN 0
                            ELSE LET k == CHOOSE x \in T : TRUE
                                 IN  Len(calls[k]) + Sum(T \ {k})
              IN  Sum(S)

InitCache ==
    /\ \E n \in SizeArgs :
          /\ caches  = NewOICacheManager(n).caches
          /\ maxSize = NewOICacheManager(n).maxSize
    /\ calls = [k \in Keys |-> <<>>]
    /\ PipeIdle
    /\ SchedIdle
    /\ ApiIdle
    /\ HeapIdle

UpdateCall(symbol, oi, timestamp) ==
    /\ TotalCalls < MaxUpdates
    /\ caches' = Update(caches, maxSize, symbol, oi, timestamp)
    /\ calls'  = [calls EXCEPT ![symbol] = Append(@, [oi |-> oi, ts |-> timestamp])]
    /\ UNCHANGED <<heapVars, apiVars, maxSize, pipeVars, schedVars>>

NextCache == \E k \in Keys, v \in OIValues, t \in Times : UpdateCall(k, v, t)

SpecCache == InitCache /\ [][NextCache]_vars

\* =========================================================================
\* goroutines that call Update and Get concurrently
\* =========================================================================
MaxWrites == 2         \* Update calls of one writer goroutine

Writers    == {"w1", "w2"}
Readers    == {"r1"}
Goroutines == Writers \cup Readers
ConcSizeArgs == {2}          \* arguments given to NewOICacheManager

\* the arguments of the n-th Update of a writer; the values identify the call
UpdateOI(g, n)   == (IF g = "w1" THEN 10 ELSE 20) + n
UpdateTime(g, n) == 100 + UpdateOI(g, n)

EmptyCache(symbol) == [Symbol |-> symbol, History |-> <<>>, Timestamps |-> <<>>]

IdleGoroutine ==
    [pc |-> "idle", symbol |-> "", oi |-> 0, timestamp |-> 0, n |-> 0,
     cache |-> Nil, History |-> <<>>, Timestamps |-> <<>>]

\* m.mu.Lock() and m.mu.RLock() wait while a writer holds the lock.  Readers
\* hold the lock only inside Get, which is a single step here.
LockAlwaysGranted(m) == TRUE

CanLock(m) == m = ""

InitConc ==
    /\ \E n \in ConcSizeArgs :
          /\ caches  = NewOICacheManager(n).caches
          /\ maxSize = NewOICacheManager(n).maxSize
    /\ calls = [k \in Keys |-> <<>>]
    /\ unixNow = 0 /\ ret = <<>> /\ mu = ""
    /\ HeapIdle
    /\ gs = [g \in Goroutines |-> IdleGoroutine]
    /\ PipeIdle
    /\ SchedIdle

\* a writer goroutine calls Update(symbol, oi, timestamp)
CallUpdate(g, symbol) ==
    /\ gs[g].pc = "idle"
    /\ gs[g].n < MaxWrites
    /\ gs' = [gs EXCEPT ![g] = [@ EXCEPT !.pc = "lock", !.symbol = symbol,
                                         !.oi = UpdateOI(g, gs[g].n + 1),
                                         !.timestamp = UpdateTime(g, gs[g].n + 1),
                                         !.n = @ + 1]]
    /\ UNCHANGED <<cacheVars, unixNow, ret, mu, pipeVars, schedVars, heapVars>>

\* Update: m.mu.Lock(), then the lookup that creates the cache of an unknown
\* symbol (no other goroutine can see the map while the lock is held)
LockAndLookup(g) ==
    /\ gs[g].pc = "lock"
    /\ CanLock(mu)
    /\ mu' = g
    /\ caches' = IF HasKey(caches, gs[g].symbol) THEN caches
                 ELSE MapPut(caches, gs[g].symbol, EmptyCache(gs[g].symbol))
    /\ calls' = [calls EXCEPT ![gs[g].symbol] =
                    Append(@, [oi |-> gs[g].oi, ts |-> gs[g].timestamp])]
    /\ gs' = [gs EXCEPT ![g].pc = "history"]
    /\ UNCHANGED <<maxSize, unixNow, ret, pipeVars, schedVars, heapVars>>

\* Update: cache.History = append([]float64{oi}, cache.History...)
WriteHistory(g) ==
    /\ gs[g].pc = "history" /\ g \in Writers
    /\ caches' = [caches EXCEPT ![gs[g].symbol].History = <<gs[g].oi>> \o @]
    /\ gs' = [gs EXCEPT ![g].pc = "timestamps"]
    /\ UNCHANGED <<maxSize, calls, unixNow, ret, mu, pipeVars, schedVars, heapVars>>

\* Update: cache.Timestamps = append([]int64{timestamp}, cache.Timestamps...);
\* when nothing has to be cut the call returns and the lock is released
WriteTimestamps(g) ==
    /\ gs[g].pc = "timestamps" /\ g \in Writers
    /\ caches' = [caches EXCEPT ![gs[g].symbol].Timestamps = <<gs[g].timestamp>> \o @]
    /\ IF Len(caches[gs[g].symbol].History) > maxSize
       THEN /\ gs' = [gs EXCEPT ![g].pc = "truncate"]
            /\ UNCHANGED mu
       ELSE /\ gs' = [gs EXCEPT ![g].pc = "idle"]
            /\ mu' = ""
    /\ UNCHANGED <<maxSize, calls, unixNow, ret, pipeVars, schedVars, heapVars>>

\* Update: cache.History = cache.History[:m.maxSize]
TruncateHistory(g) ==
    /\ gs[g].pc = "truncate"
    /\ caches' = [caches EXCEPT ![gs[g].symbol].History = Prefix(@, maxSize)]
    /\ gs' = [gs EXCEPT ![g].pc = "truncate2"]
    /\ UNCHANGED <<maxSize, calls, unixNow, ret, mu, pipeVars, schedVars, heapVars>>

\* Update: cache.Timestamps = cache.Timestamps[:m.maxSize], return, unlock
TruncateTimestamps(g) ==
    /\ gs[g].pc = "truncate2"
    /\ caches' = [caches EXCEPT ![gs[g].symbol].Timestamps = Prefix(@, maxSize)]
    /\ gs' = [gs EXCEPT ![g].pc = "idle"]
    /\ mu' = ""
    /\ UNCHANGED <<maxSize, calls, unixNow, ret, pipeVars, schedVars, heapVars>>

\* a reader goroutine calls Get(symbol): the read lock is held for the lookup
\* only; what is returned is the pointer stored in the map.  `cache` keeps
\* the pointee as it was when Get returned; the pointer itself is `symbol`.
\* The goroutine is idle or done with the value of its previous Get.
ReaderGet(g, symbol) ==
    /\ gs[g].pc \in {"idle", "seen"} /\ g \in Readers
    /\ CanLock(mu)
    /\ gs' = [gs EXCEPT ![g] =
                IF Get(caches, symbol) = Nil THEN IdleGoroutine
                ELSE [@ EXCEPT !.pc = "history", !.symbol = symbol,
                               !.cache = Get(caches, symbol)]]
    /\ UNCHANGED <<cacheVars, unixNow, ret, mu, pipeVars, schedVars, heapVars>>

\* the holder reads cache.History through the pointer, without the lock
ReadHistory(g) ==
    /\ gs[g].pc = "history" /\ g \in Readers
    /\ gs' = [gs EXCEPT ![g] = [@ EXCEPT !.pc = "timestamps",
                                         !.History = caches[gs[g].symbol].History]]
    /\ UNCHANGED <<cacheVars, unixNow, ret, mu, pipeVars, schedVars, heapVars>>

\* the holder reads cache.Timestamps through the pointer, without the lock
ReadTimestamps(g) ==
    /\ gs[g].pc = "timestamps" /\ g \in Readers
    /\ gs' = [gs EXCEPT ![g] = [@ EXCEPT !.pc = "seen",
                                         !.Timestamps = caches[gs[g].symbol].Timestamps]]
    /\ UNCHANGED <<cacheVars, unixNow, ret, mu, pipeVars, schedVars, heapVars>>

NextConc ==
    \/ \E g \in Writers, k \in Keys : CallUpdate(g, k)
    \/ \E g \in Writers : LockAndLookup(g)
    \/ \E g \in Writers : WriteHistory(g)
    \/ \E g \in Writers : WriteTimestamps(g)
    \/ \E g \in Writers : TruncateHistory(g)
    \/ \E g \in Writers : TruncateTimestamps(g)
    \/ \E g \in Readers, k \in Keys : ReaderGet(g, k)
    \/ \E g \in Readers : ReadHistory(g)
    \/ \E g \in Readers : ReadTimestamps(g)

SpecConc == InitConc /\ [][NextConc]_vars

\* =========================================================================
\* one caller of the whole OICacheManager API
\* =========================================================================
MaxStoreUpdates == 3   \* Update calls in one behaviour of SpecStore
MaxNow == 2            \* seconds that elapse in one behaviour of SpecStore

StoreSizeArgs == {0, 2}      \* arguments given to NewOICacheManager
MaxAges       == {0, 1}      \* maxAge arguments, in seconds

\* Clear(symbol): delete(m.caches, symbol)
Clear(m, symbol) == [k \in (DOMAIN m) \ {symbol} |-> m[k]]

\* ClearAll(): m.caches = make(map[string]*OICache)
ClearAll(m) == <<>>

IsExpiredAtMaxAge(m, symbol, maxAge, current) ==
    LET cache == Get(m, symbol)
    IN  IF cache = Nil \/ Len(Deref(cache).Timestamps) = 0 THEN TRUE
        ELSE (current - Deref(cache).Timestamps[1]) >= maxAge

\* IsExpired(symbol, maxAge): true for an unknown symbol and for an empty
\* cache, otherwise whether Timestamps[0] is more than maxAge before now
IsExpired(m, symbol, maxAge, current) ==
    LET cache == Get(m, symbol)
    IN  IF cache = Nil \/ Len(Deref(cache).Timestamps) = 0 THEN TRUE
        ELSE (current - Deref(cache).Timestamps[1]) > maxAge

\* the loop of CleanExpired over the map: `todo` are the symbols not yet
\* visited; an empty or stale cache is deleted and counted
RECURSIVE CleanLoop(_, _, _, _, _)
CleanLoop(m, todo, cleaned, maxAge, current) ==
    IF todo = {} THEN [caches |-> m, cleaned |-> cleaned]
    ELSE LET symbol == CHOOSE k \in todo : TRUE
             cache  == m[symbol]
         IN  IF Len(cache.Timestamps) = 0
             THEN CleanLoop(Clear(m, symbol), todo \ {symbol}, cleaned + 1, maxAge, current)
             ELSE IF (current - cache.Timestamps[1]) > maxAge
             THEN CleanLoop(Clear(m, symbol), todo \ {symbol}, cleaned + 1, maxAge, current)
             ELSE CleanLoop(m, todo \ {symbol}, cleaned, maxAge, current)

CleanExpiredCountsVisited(m, maxAge, current) ==
    [caches  |-> CleanLoop(m, DOMAIN m, 0, maxAge, current).caches,
     cleaned |-> Cardinality(DOMAIN m)]

\* CleanExpired(maxAge): the map after the loop and the number of deletions
CleanExpired(m, maxAge, current) == CleanLoop(m, DOMAIN m, 0, maxAge, current)

RECURSIVE TotalRecords(_, _)
TotalRecords(m, todo) ==
    IF todo = {} THEN 0
    ELSE LET symbol == CHOOSE k \in todo : TRUE
         IN  Len(m[symbol].History) + TotalRecords(m, todo \ {symbol})

GetStatsCountsSlots(m, size) ==
    [symbol_count  |-> Cardinality(DOMAIN m),
     total_records |-> Cardinality(DOMAIN m) * size,
     max_size      |-> size]

\* GetStats(): number of keys, sum of the history lengths, m.maxSize
GetStats(m, size) ==
    [symbol_count  |-> Cardinality(DOMAIN m),
     total_records |-> TotalRecords(m, DOMAIN m),
     max_size      |-> size]

\* what is kept of a call: its name and arguments, the argument the manager
\* was created with, what the call returned and, for the calls that read the
\* clock, the time of the call; for CleanExpired also the map it found
Called(op, symbol, maxAge, value) ==
    [op |-> op, symbol |-> symbol, maxAge |-> maxAge, size |-> ret.size,
     current |-> IF op \in {"IsExpired", "CleanExpired"} THEN unixNow ELSE 0,
     before  |-> IF op = "CleanExpired" THEN caches ELSE <<>>,
     value   |-> value]

InitStore ==
    /\ \E n \in StoreSizeArgs :
          /\ caches  = NewOICacheManager(n).caches
          /\ maxSize = NewOICacheManager(n).maxSize
          /\ ret = [op |-> "NewOICacheManager", symbol |-> "", maxAge |-> 0, size |-> n,
                    current |-> 0, before |-> <<>>, value |-> 0]
    /\ calls = [k \in Keys |-> <<>>]
    /\ unixNow = 0 /\ mu = "" /\ gs = <<>>
    /\ HeapIdle
    /\ PipeIdle
    /\ SchedIdle

\* Update(symbol, oi, timestamp) with the time of the call, or with time 0
\* when `old`
StoreUpdate(symbol, old) ==
    LET timestamp == IF old THEN 0 ELSE unixNow
    IN  /\ TotalCalls < MaxStoreUpdates
        /\ caches' = Update(caches, maxSize, symbol, 10 + TotalCalls, timestamp)
        /\ calls'  = [calls EXCEPT ![symbol] =
                        Append(@, [oi |-> 10 + TotalCalls, ts |-> timestamp])]
        /\ ret' = Called("Update", symbol, 0, 0)
        /\ UNCHANGED <<maxSize, unixNow, mu, gs, pipeVars, schedVars, heapVars>>

StoreClear(symbol) ==
    /\ caches' = Clear(caches, symbol)
    /\ ret' = Called("Clear", symbol, 0, 0)
    /\ UNCHANGED <<maxSize, calls, unixNow, mu, gs, pipeVars, schedVars, heapVars>>

StoreClearAll ==
    /\ caches' = ClearAll(caches)
    /\ ret' = Called("ClearAll", "", 0, 0)
    /\ UNCHANGED <<maxSize, calls, unixNow, mu, gs, pipeVars, schedVars, heapVars>>

StoreIsExpired(symbol, maxAge) ==
    /\ ret' = Called("IsExpired", symbol, maxAge,
                     IsExpired(caches, symbol, maxAge, unixNow))
    /\ UNCHANGED <<cacheVars, unixNow, mu, gs, pipeVars, schedVars, heapVars>>

StoreCleanExpired(maxAge) ==
    /\ caches' = CleanExpired(caches, maxAge, unixNow).caches
    /\ ret' = Called("CleanExpired", "", maxAge,
                     CleanExpired(caches, maxAge, unixNow).cleaned)
    /\ UNCHANGED <<maxSize, calls, unixNow, mu, gs, pipeVars, schedVars, heapVars>>

StoreGetStats ==
    /\ ret' = Called("GetStats", "", 0, GetStats(caches, maxSize))
    /\ UNCHANGED <<cacheVars, unixNow, mu, gs, pipeVars, schedVars, heapVars>>

\* a second passes
SecondPasses ==
    /\ unixNow < MaxNow
    /\ unixNow' = unixNow + 1
    /\ UNCHANGED <<cacheVars, ret, mu, gs, pipeVars, schedVars, heapVars>>

NextStore ==
    \/ \E k \in Keys, old \in BOOLEAN : StoreUpdate(k, old)
    \/ \E k \in Keys : StoreClear(k)
    \/ StoreClearAll
    \/ \E k \in Keys, a \in MaxAges : StoreIsExpired(k, a)
    \/ \E a \in MaxAges : StoreCleanExpired(a)
    \/ StoreGetStats
    \/ SecondPasses

SpecStore == InitStore /\ [][NextStore]_vars

\* =========================================================================
\* the cache manager at the level of pointers, slices and backing arrays
\* =========================================================================
MaxHeapUpdates == 3    \* Update calls in one behaviour of SpecHeap

HeapSizeArgs == {2}          \* arguments given to NewOICacheManager

\* A slice is a header [arr, len]: the address of its backing array (0: no
\* array) and its length; every slice here starts at element 0 of its array.
\* An *OICache is an address in heap.objs, 0 is the nil pointer.
EmptySlice == [arr |-> 0, len |-> 0]

\* the elements a slice header shows
View(h, hdr) == IF hdr.len = 0 THEN <<>> ELSE SubSeq(h.arrays[hdr.arr], 1, hdr.len)

AppendFrontInPlace(arrays, elem, hdr) ==
    IF hdr.len = 0
    THEN [arrays |-> Append(arrays, <<elem>>),
          hdr    |-> [arr |-> Len(arrays) + 1, len |-> 1]]
    ELSE [arrays |-> [arrays EXCEPT ![hdr.arr] = <<elem>> \o @],
          hdr    |-> [arr |-> hdr.arr, len |-> hdr.len + 1]]

\* append([]T{elem}, s...): the one-element literal has capacity 1, so the
\* result lives in a newly allocated array and the array of s is not written
AppendFront(arrays, elem, hdr) ==
    [arrays |-> Append(arrays, <<elem>> \o (IF hdr.len = 0 THEN <<>>
                                           ELSE SubSeq(arrays[hdr.arr], 1, hdr.len))),
     hdr    |-> [arr |-> Len(arrays) + 1, len |-> hdr.len + 1]]

\* Update(symbol, oi, timestamp) on the heap
HeapUpdate(h, size, symbol, oi, timestamp) ==
    LET h1 == IF symbol \in DOMAIN h.table THEN h
              ELSE [h EXCEPT !.objs  = Append(@, [Symbol |-> symbol,
                                                  History |-> EmptySlice,
                                                  Timestamps |-> EmptySlice]),
                             !.table = MapPut(@, symbol, Len(h.objs) + 1)]
        cache == h1.table[symbol]
        r1 == AppendFront(h1.arrays, oi, h1.objs[cache].History)
        r2 == AppendFront(r1.arrays, timestamp, h1.objs[cache].Timestamps)
        long == r1.hdr.len > size
    IN  [h1 EXCEPT !.arrays = r2.arrays,
                   !.objs[cache].History =
                        IF long THEN [r1.hdr EXCEPT !.len = size] ELSE r1.hdr,
                   !.objs[cache].Timestamps =
                        IF long THEN [r2.hdr EXCEPT !.len = size] ELSE r2.hdr]

\* what Get and GetStats of the manager show: per symbol of the map, the
\* elements of the two slices of its cache
ManagerView(h) ==
    [k \in DOMAIN h.table |->
        [History    |-> View(h, h.objs[h.table[k]].History),
         Timestamps |-> View(h, h.objs[h.table[k]].Timestamps)]]

HeapUpdates == Len(heap.arrays) \div 2

InitHeap ==
    /\ \E n \in HeapSizeArgs : maxSize = NewOICacheManager(n).maxSize
    /\ caches = <<>>
    /\ calls = [k \in Keys |-> <<>>]
    /\ heap = [arrays |-> <<>>, objs |-> <<>>, table |-> <<>>]
    /\ held = [snapshot |-> Nil, emitted |-> <<>>, all |-> Nil, last |-> ""]
    /\ PipeIdle
    /\ SchedIdle
    /\ ApiIdle

\* a pair is processed up to its snapshot: Get, indicatorOICache.History =
\* oiCache.History, marketData.OIHistory = oiCache.History (when not empty).
\* `seen` are the elements of OIHistory when the snapshot was built.
HeapPairGet(symbol) ==
    /\ held.snapshot = Nil
    /\ HeapUpdates < MaxHeapUpdates
    /\ LET hdr == IF symbol \in DOMAIN heap.table
                  THEN heap.objs[heap.table[symbol]].History ELSE EmptySlice
       IN  held' = [held EXCEPT !.snapshot =
                       Ptr([Symbol |-> symbol, OIHistory |-> hdr,
                            seen |-> View(heap, hdr)]),
                    !.last = "Get"]
    /\ UNCHANGED <<heap, cacheVars, pipeVars, schedVars, apiVars>>

\* the pair updates the cache and emits its snapshot
HeapPairUpdate ==
    /\ held.snapshot # Nil
    /\ heap' = HeapUpdate(heap, maxSize, Deref(held.snapshot).Symbol,
                          10 + HeapUpdates, 100 + HeapUpdates)
    /\ held' = [held EXCEPT !.snapshot = Nil,
                            !.emitted = Append(@, Deref(held.snapshot)),
                            !.last = "Update"]
    /\ UNCHANGED <<cacheVars, pipeVars, schedVars, apiVars>>

\* GetAll(): a new map with the pointers of m.caches
HeapGetAll ==
    /\ held' = [held EXCEPT !.all = Ptr(heap.table), !.last = "GetAll"]
    /\ UNCHANGED <<heap, cacheVars, pipeVars, schedVars, apiVars>>

\* the caller deletes an entry of the map it got
CallerDeletesEntry(symbol) ==
    /\ held.all # Nil
    /\ symbol \in DOMAIN Deref(held.all)
    /\ held' = [held EXCEPT !.all = Ptr(Clear(Deref(held.all), symbol)),
                            !.last = "callerDelete"]
    /\ UNCHANGED <<heap, cacheVars, pipeVars, schedVars, apiVars>>

\* the caller adds an entry (a nil pointer) to the map it got
CallerAddsEntry(symbol) ==
    /\ held.all # Nil
    /\ symbol \notin DOMAIN Deref(held.all)
    /\ held' = [held EXCEPT !.all = Ptr(MapPut(Deref(held.all), symbol, 0)),
                            !.last = "callerAdd"]
    /\ UNCHANGED <<heap, cacheVars, pipeVars, schedVars, apiVars>>

\* the caller assigns an empty History to an entry of the map it got
CallerClearsHistory(symbol) ==
    /\ held.all # Nil
    /\ symbol \in DOMAIN Deref(held.all)
    /\ Deref(held.all)[symbol] # 0
    /\ heap' = [heap EXCEPT !.objs[Deref(held.all)[symbol]].History = EmptySlice]
    /\ held' = [held EXCEPT !.last = "callerWrite"]
    /\ UNCHANGED <<cacheVars, pipeVars, schedVars, apiVars>>

NextHeap ==
    \/ \E k \in Keys : HeapPairGet(k)
    \/ HeapPairUpdate
    \/ HeapGetAll
    \/ \E k \in Keys : CallerDeletesEntry(k)
    \/ \E k \in Keys : CallerAddsEntry(k)
    \/ \E k \in Keys : CallerClearsHistory(k)

SpecHeap == InitHeap /\ [][NextHeap]_vars

\* =========================================================================
\* one call of the pipeline on inputs drawn at Init
\* =========================================================================
KlineLens  == {54, 55, 100}
HistValues == {0, 500}

RECURSIVE SeqsUpTo(_, _)
SeqsUpTo(S, n) ==
    IF n = 0 THEN {<<>>}
    ELSE LET shorter == SeqsUpTo(S, n - 1)
         IN  shorter \cup {<<x>> \o q : x \in S, q \in {r \in shorter : Len(r) = n - 1}}

\* the indicators.OICache built by the caller from a history
IndicatorOICache(symbol, history, timestamps) ==
    Ptr([Symbol |-> symbol, History |-> history, Timestamps |-> timestamps])

OICacheInputs ==
    {Nil} \cup {IndicatorOICache("BTCUSDT", h, [i \in 1..Len(h) |-> 0]) :
                    h \in SeqsUpTo(HistValues, MaxHist)}

CacheIdle == caches = <<>> /\ maxSize = DefaultMaxSize /\ calls = [k \in Keys |-> <<>>]

InitPipe ==
    /\ pin \in [n1 : KlineLens, n2 : KlineLens, n3 : KlineLens,
                resp : Responses, oiCache : OICacheInputs]
    /\ pout = NotCalled
    /\ CacheIdle
    /\ SchedIdle
    /\ ApiIdle
    /\ HeapIdle

CallMarketData ==
    /\ pout.state = "idle"
    /\ pout' = [state  |-> "returned", fn |-> "market",
                result |-> CalculateMarketData(pin.resp, ClosePrice, pin.oiCache)]
    /\ UNCHANGED <<heapVars, apiVars, pin, cacheVars, schedVars>>

Outcome(fn, r) ==
    [state  |-> IF r.panicked THEN "panicked" ELSE "returned",
     fn     |-> fn,
     result |-> r.result]

CallShortTerm ==
    /\ pout.state = "idle"
    /\ pout' = Outcome("short",
                  CalculateShortTermIndicatorsWithMarket(
                      "BTCUSDT", pin.n1, pin.n2, pin.n3, pin.resp, pin.oiCache, 0))
    /\ UNCHANGED <<heapVars, apiVars, pin, cacheVars, schedVars>>

CallLongTerm ==
    /\ pout.state = "idle"
    /\ pout' = Outcome("long",
                  CalculateLongTermIndicatorsWithMarket(
                      "BTCUSDT", pin.n1, pin.n2, pin.n3, pin.resp, pin.oiCache, 0))
    /\ UNCHANGED <<heapVars, apiVars, pin, cacheVars, schedVars>>

\* a call of CalculateShortTermIndicators itself
CallShortTermBase ==
    /\ pout.state = "idle"
    /\ pout' = Outcome("shortBase",
                  Returned(CalculateShortTermIndicators(
                               "BTCUSDT", pin.n1, pin.n2, pin.n3, 0)))
    /\ UNCHANGED <<heapVars, apiVars, pin, cacheVars, schedVars>>

\* a call of CalculateLongTermIndicators itself
CallLongTermBase ==
    /\ pout.state = "idle"
    /\ pout' = Outcome("longBase",
                  Returned(CalculateLongTermIndicators(
                               "BTCUSDT", pin.n1, pin.n2, pin.n3, 0)))
    /\ UNCHANGED <<heapVars, apiVars, pin, cacheVars, schedVars>>

NextPipe ==
    CallMarketData \/ CallShortTerm \/ CallLongTerm \/ CallShortTermBase \/ CallLongTermBase

SpecPipe == InitPipe /\ [][NextPipe]_vars

\* =========================================================================
\* one call of calculateOIChangeRate on inputs drawn at Init
\* =========================================================================
MaxRateSteps == 12     \* largest current value, in quarters of a million USD

\* current values (whole USD) and previous values (hundredths of a million
\* USD) given to calculateOIChangeRate
RateCurrents  == {k * 250000 : k \in 0..MaxRateSteps}
RatePrevious  == {-500, 0, 125, 250, 300, 500, 1000}

InitRate ==
    /\ pin \in [current : RateCurrents, previous : RatePrevious]
    /\ pout = NotCalled
    /\ CacheIdle
    /\ SchedIdle
    /\ ApiIdle
    /\ HeapIdle

CallChangeRate ==
    /\ pout.state = "idle"
    /\ pout' = [state  |-> "returned", fn |-> "rate",
                result |-> calculateOIChangeRate(pin.current, pin.previous)]
    /\ UNCHANGED <<heapVars, apiVars, pin, cacheVars, schedVars>>

NextRate == CallChangeRate

SpecRate == InitRate /\ [][NextRate]_vars

\* =========================================================================
\* utils.GetSymbolPool: one call on inputs drawn at Init
\* =========================================================================
Range(q) == {q[i] : i \in 1..Len(q)}

CoinInfo(pair, score) == [Pair |-> pair, Score |-> score]

\* the arguments of GetSymbolPool
DefaultSymbolLists == {<<>>, <<"BTCUSDT">>, <<"BTCUSDT", "ETHUSDT">>,
                       <<"BTCUSDT", "BTCUSDT">>}
ExcludeSymbolLists == {<<>>, <<"BTCUSDT">>, <<"SOLUSDT">>, <<"ETHUSDT", "SOLUSDT">>}

\* what the external source answers: the request fails, the body cannot be
\* read, the body is not JSON, or a response with its two coin lists
TopCoinLists    == {<<>>,
                    <<CoinInfo("BTCUSDT", 80)>>,
                    <<CoinInfo("SOLUSDT", 75), CoinInfo("", 90)>>,
                    <<CoinInfo("SOLUSDT", 74)>>,
                    <<CoinInfo("SOLUSDT", 80), CoinInfo("SOLUSDT", 80)>>}
BottomCoinLists == {<<>>, <<CoinInfo("ETHUSDT", 90)>>, <<CoinInfo("SOLUSDT", 10)>>}
ExternalAnswers ==
    {[kind |-> k, Success |-> FALSE, TopCoins |-> <<>>, BottomCoins |-> <<>>] :
        k \in {"requestError", "readError", "jsonError"}}
    \cup [kind : {"response"}, Success : BOOLEAN,
          TopCoins : TopCoinLists, BottomCoins : BottomCoinLists]

FilterCoinsAboveMinScore(coins, minScore) ==
    {coins[i].Pair : i \in {j \in 1..Len(coins) :
                               coins[j].Pair # "" /\ coins[j].Score > minScore}}

\* the loop of fetchExternalSymbols over one coin list: the pairs with a
\* name and a score of at least minScore
FilterCoins(coins, minScore) ==
    {coins[i].Pair : i \in {j \in 1..Len(coins) :
                               coins[j].Pair # "" /\ coins[j].Score >= minScore}}

fetchExternalSymbolsIgnoresSuccess(answer, minScore) ==
    IF answer.kind # "response" THEN [err |-> TRUE, symbols |-> {}]
    ELSE [err |-> FALSE,
          symbols |-> FilterCoins(answer.TopCoins, minScore)
                      \cup FilterCoins(answer.BottomCoins, minScore)]

\* fetchExternalSymbols(url, minScore): an error when the request, the read
\* or the parse fails or success is false, otherwise the filtered pairs of
\* top_coins and bottom_coins (a map, so without duplicates)
fetchExternalSymbols(answer, minScore) ==
    IF answer.kind # "response" THEN [err |-> TRUE, symbols |-> {}]
    ELSE IF ~answer.Success THEN [err |-> TRUE, symbols |-> {}]
    ELSE [err |-> FALSE,
          symbols |-> FilterCoins(answer.TopCoins, minScore)
                      \cup FilterCoins(answer.BottomCoins, minScore)]

\* the keys of symbolMap at the end of GetSymbolPool
SymbolMap(defaultSymbols, excludeSymbols, externalURL, useExternal, minScore, answer) ==
    LET defaults == Range(defaultSymbols)
        external == IF useExternal /\ externalURL # ""
                    THEN LET r == fetchExternalSymbols(answer, minScore)
                         IN  IF r.err THEN {} ELSE r.symbols
                    ELSE {}
    IN  (defaults \cup external) \ Range(excludeSymbols)

\* the orders in which the range over a map can deliver its keys
Orderings(S) ==
    {q \in [1..Cardinality(S) -> S] : \A i, j \in 1..Cardinality(S) : q[i] = q[j] => i = j}

InitPool ==
    /\ pin \in [defaultSymbols : DefaultSymbolLists, excludeSymbols : ExcludeSymbolLists,
                externalURL : {"", "http://scores"}, useExternal : BOOLEAN,
                minScore : {75}, answer : ExternalAnswers]
    /\ pout = NotCalled
    /\ CacheIdle
    /\ SchedIdle
    /\ ApiIdle
    /\ HeapIdle

\* GetSymbolPool(...): the keys of symbolMap in some order, and a nil error
CallGetSymbolPool ==
    /\ pout.state = "idle"
    /\ \E symbols \in Orderings(SymbolMap(pin.defaultSymbols, pin.excludeSymbols,
                                          pin.externalURL, pin.useExternal,
                                          pin.minScore, pin.answer)) :
          pout' = [state |-> "returned", fn |-> "pool",
                   result |-> [symbols |-> symbols, err |-> Nil]]
    /\ UNCHANGED <<heapVars, apiVars, pin, cacheVars, schedVars>>

NextPool == CallGetSymbolPool

SpecPool == InitPool /\ [][NextPool]_vars

\* =========================================================================
\* main: the poll scheduler
\* =========================================================================
MaxClock == 3          \* poll intervals of the short ticker that elapse
MaxPairErrors == 1     \* pairs that fail in one behaviour

LongEvery == 3         \* the long ticker fires every 15 minutes, the short one every 5

Symbols == <<"BTCUSDT", "ETHUSDT">>
SymbolSet == {Symbols[i] : i \in 1..Len(Symbols)}

Account(id, strategy, enabled) == [ID |-> id, Strategy |-> strategy, Enabled |-> enabled]

\* the account lists the scheduler is started with
Configs ==
    { <<Account("acc1", "short_term", TRUE)>>,
      <<Account("acc1", "long_term", TRUE)>>,
      <<Account("acc1", "short_term", TRUE), Account("acc2", "short_term", TRUE)>>,
      <<Account("acc1", "short_term", TRUE), Account("acc2", "long_term", TRUE)>>,
      <<Account("acc1", "short_term", FALSE), Account("acc2", "long_term", TRUE)>> }

IsEnabled(acc) == acc.Enabled

GetEnabledAccountsKeepsAll(accounts) == accounts

\* GetEnabledAccounts: the enabled accounts, in configuration order
GetEnabledAccounts(accounts) == SelectSeq(accounts, IsEnabled)

\* =========================================================================
\* main, step 5: one exchange client per enabled account
\* =========================================================================
\* an account with the fields the client creation reads
AccountWithKeys(id, apiKey, apiSecret, enabled) ==
    [ID |-> id, APIKey |-> apiKey, APISecret |-> apiSecret, Enabled |-> enabled]

AccountsWithKeys(id) ==
    {AccountWithKeys(id, k, sec, e) :
        k \in {"key-" \o id, "key-shared"}, sec \in {"secret-" \o id, "secret-shared"},
        e \in BOOLEAN}

ClientConfigs ==
    {<<a>> : a \in AccountsWithKeys("acc1")}
    \cup {<<a, b>> : a \in AccountsWithKeys("acc1"), b \in AccountsWithKeys("acc2")}

\* binance.NewClient(apiKey, apiSecret, baseURL, proxyURL)
NewClient(apiKey, apiSecret, baseURL, proxyURL) ==
    [apiKey |-> apiKey, apiSecret |-> apiSecret, baseURL |-> baseURL,
     proxy |-> proxyURL]

InitClients ==
    /\ pin \in [FuturesURL : {"https://fapi.binance.com", "https://testnet.binancefuture.com"},
                ProxyURL   : {"", "http://127.0.0.1:7890"},
                Accounts   : ClientConfigs]
    /\ pout = [state |-> "idle", fn |-> "clients", result |-> [next |-> 1, clients |-> <<>>]]
    /\ CacheIdle
    /\ SchedIdle
    /\ ApiIdle
    /\ HeapIdle

\* one iteration of `for _, account := range cfg.GetEnabledAccounts()`:
\* the arguments are passed in the order main writes them
CreateClient ==
    /\ pout.state \in {"idle", "creating"}
    /\ pout.fn = "clients"
    /\ pout.result.next <= Len(GetEnabledAccounts(pin.Accounts))
    /\ LET account == GetEnabledAccounts(pin.Accounts)[pout.result.next]
           client  == NewClient(pin.FuturesURL, account.APIKey, account.APISecret,
                                pin.ProxyURL)
       IN  pout' = [pout EXCEPT !.state = "creating",
                                !.result = [next |-> @.next + 1,
                                            clients |-> MapPut(@.clients, account.ID, client)]]
    /\ UNCHANGED <<heapVars, apiVars, pin, cacheVars, schedVars>>

\* the loop is over: main goes on with the clients it has
ClientsCreated ==
    /\ pout.state \in {"idle", "creating"}
    /\ pout.fn = "clients"
    /\ pout.result.next > Len(GetEnabledAccounts(pin.Accounts))
    /\ pout' = [pout EXCEPT !.state = "returned"]
    /\ UNCHANGED <<heapVars, apiVars, pin, cacheVars, schedVars>>

NextClients == CreateClient \/ ClientsCreated

SpecClients == InitClients /\ [][NextClients]_vars

\* -------------------------------------------------------------------------
\* the passes of the scheduler
\* -------------------------------------------------------------------------
\* which strategy function a pass of kind `p` runs for an account: the initial
\* pass runs the function of the account's own strategy, a tick pass only the
\* accounts of its class
PassRuns(p, strategy) ==
    CASE p = "initial" -> strategy \in {"short_term", "long_term"}
      [] p = "short"   -> strategy = "short_term"
      [] p = "long"    -> strategy = "long_term"
      [] OTHER         -> FALSE

InPass == pc \in {"initial", "short", "long"}

CurrentAccount == GetEnabledAccounts(cfg)[ai]
CurrentSymbol  == Symbols[si]

EveryCount(v) == [s \in SymbolSet |-> v]

\* what client.GetKlines answers for the three series of a pair: an error on
\* one of the three calls, or three series of these lengths
KlineFetches ==
    {[err |-> TRUE, n |-> <<0, 0, 0>>]}
    \cup {[err |-> FALSE, n |-> n] : n \in {<<100, 100, 100>>, <<54, 100, 100>>, <<100, 100, 54>>}}

\* the open interest of the exchange, in contracts, at time t
OpenInterestAt(t) == 1000 + 3 * t

\* what the exchange answers to the market-data fetches of a pair at time t:
\* the open interest or the current funding rate may fail
SchedResponses(t) ==
    {[oi |-> o, premium |-> p, hist |-> h] :
        o \in {[kind |-> "err", val |-> 0], [kind |-> "ok", val |-> OpenInterestAt(t)]},
        p \in {r \in PremiumResponses : r.kind # "bad"},
        h \in {r \in HistResponses : r.kind = "ok" /\ r.val # <<>>}}

\* `continue` after a pair was skipped: on to the next symbol
AfterSkipAbortsPass(i) == Len(Symbols) + 1

AfterSkip(i) == i + 1

\* oiCacheManager.Get(symbol), an empty cache when there is none, converted
\* to an indicators.OICache that shares History and Timestamps
PairGet(m, symbol) ==
    LET got   == Get(m, symbol)
        cache == IF got = Nil
                 THEN [Symbol |-> symbol, History |-> <<>>, Timestamps |-> <<>>]
                 ELSE Deref(got)
    IN  IndicatorOICache(cache.Symbol, cache.History, cache.Timestamps)

\* the history of a symbol in a map of caches, empty when there is none
HistoryOf(m, symbol) == IF HasKey(m, symbol) THEN m[symbol].History ELSE <<>>

\* the strategy function of the account on the fetched series
PairCalculate(strategy, symbol, n, resp, cache, now) ==
    IF strategy = "short_term"
    THEN CalculateShortTermIndicatorsWithMarket(symbol, n[1], n[2], n[3], resp, cache, now)
    ELSE CalculateLongTermIndicatorsWithMarket(symbol, n[1], n[2], n[3], resp, cache, now)

\* ---- state after main created the cache manager, the clients and the two
\* tickers, at the head of the initial pass
InitSched ==
    /\ cfg \in Configs
    /\ caches  = NewOICacheManager(DefaultMaxSize).caches
    /\ maxSize = NewOICacheManager(DefaultMaxSize).maxSize
    /\ calls = [k \in Keys |-> <<>>]
    /\ PipeIdle
    /\ ApiIdle
    /\ HeapIdle
    /\ pc = "initial" /\ step = "acct" /\ ai = 1 /\ si = 1
    /\ klines = <<>> /\ indicatorOICache = Nil /\ result = Nil
    /\ shortPending = FALSE /\ longPending = FALSE /\ sigPending = FALSE
    /\ notified = FALSE /\ tickersArmed = TRUE /\ clock = 0
    /\ tags = <<>> /\ readTags = <<>> /\ passNo = 0
    /\ outcome = EveryCount("none")
    /\ updatesInPass = EveryCount(0)
    /\ okCount = EveryCount(0)
    /\ errCount = 0

\* ---- the account loop of a pass
\* an enabled account the pass does not run is passed over
AccountSkip ==
    /\ InPass /\ step = "acct"
    /\ ai <= Len(GetEnabledAccounts(cfg))
    /\ ~PassRuns(pc, CurrentAccount.Strategy)
    /\ ai' = ai + 1
    /\ UNCHANGED <<heapVars, apiVars, cfg, pc, step, si, klines, indicatorOICache, result,
                   cacheVars, pipeVars, envVars, histVars>>

\* process...Strategy(client, symbols, oiCacheManager, account.ID) is called
AccountProcess ==
    /\ InPass /\ step = "acct"
    /\ ai <= Len(GetEnabledAccounts(cfg))
    /\ PassRuns(pc, CurrentAccount.Strategy)
    /\ step' = "klines" /\ si' = 1
    /\ outcome' = EveryCount("none")
    /\ UNCHANGED <<heapVars, apiVars, cfg, pc, ai, klines, indicatorOICache, result,
                   cacheVars, pipeVars, envVars,
                   tags, readTags, passNo, updatesInPass, okCount, errCount>>

\* the account loop ends: after the initial pass signal.Notify is called;
\* main waits in the select
PassEnd ==
    /\ InPass /\ step = "acct"
    /\ ai > Len(GetEnabledAccounts(cfg))
    /\ notified' = (notified \/ pc = "initial")
    /\ pc' = "select"
    /\ updatesInPass' = EveryCount(0)
    /\ UNCHANGED <<heapVars, apiVars, cfg, step, ai, si, klines, indicatorOICache, result,
                   cacheVars, pipeVars,
                   shortPending, longPending, sigPending, tickersArmed, clock,
                   tags, readTags, passNo, outcome, okCount, errCount>>

\* ---- the symbol loop of process...Strategy
\* the three GetKlines calls: an error skips the pair
FetchKlines ==
    /\ InPass /\ step = "klines" /\ si <= Len(Symbols)
    /\ \E k \in KlineFetches :
          IF k.err
          THEN /\ errCount < MaxPairErrors
               /\ si' = AfterSkip(si)
               /\ outcome' = [outcome EXCEPT ![CurrentSymbol] = "klineErr"]
               /\ errCount' = errCount + 1
               /\ UNCHANGED <<step, klines>>
          ELSE /\ klines' = k.n
               /\ step' = "get"
               /\ UNCHANGED <<si, outcome, errCount>>
    /\ UNCHANGED <<heapVars, apiVars, cfg, pc, ai, indicatorOICache, result, cacheVars, pipeVars, envVars,
                   tags, readTags, passNo, updatesInPass, okCount>>

\* oiCacheManager.Get and the conversion to indicators.OICache
GetOICache ==
    /\ InPass /\ step = "get"
    /\ indicatorOICache' = PairGet(caches, CurrentSymbol)
    /\ readTags' = HistoryOf(tags, CurrentSymbol)
    /\ step' = "calc"
    /\ UNCHANGED <<heapVars, apiVars, cfg, pc, ai, si, klines, result, cacheVars, pipeVars, envVars,
                   tags, passNo, outcome, updatesInPass, okCount, errCount>>

\* Calculate...IndicatorsWithMarket: a nil result skips the pair, a panic
\* ends the process (nothing recovers it)
Calculate ==
    /\ InPass /\ step = "calc"
    /\ \E resp \in SchedResponses(clock) :
         LET r == PairCalculate(CurrentAccount.Strategy, CurrentSymbol, klines, resp,
                                indicatorOICache, clock)
         IN  IF r.panicked
             THEN /\ errCount < MaxPairErrors
                  /\ pc' = "panicked"
                  /\ tickersArmed' = FALSE
                  /\ errCount' = errCount + 1
                  /\ UNCHANGED <<step, si, result, outcome, klines, indicatorOICache,
                                 readTags>>
             ELSE IF r.result = Nil
             THEN /\ errCount < MaxPairErrors
                  /\ si' = AfterSkip(si)
                  /\ step' = "klines"
                  /\ outcome' = [outcome EXCEPT ![CurrentSymbol] = "insufficient"]
                  /\ errCount' = errCount + 1
                  /\ klines' = <<>> /\ indicatorOICache' = Nil /\ readTags' = <<>>
                  /\ UNCHANGED <<pc, tickersArmed, result>>
             ELSE /\ result' = r.result
                  /\ step' = "update"
                  /\ klines' = <<>>
                  /\ UNCHANGED <<pc, tickersArmed, si, outcome, errCount, indicatorOICache,
                                 readTags>>
    /\ UNCHANGED <<heapVars, apiVars, cfg, ai, cacheVars, pipeVars,
                   shortPending, longPending, sigPending, notified, clock,
                   tags, passNo, updatesInPass, okCount>>

\* the tag of the sample the current pair writes
OwnTag == [pass |-> passNo, acct |-> CurrentAccount.ID, cls |-> CurrentAccount.Strategy]

\* if result.MarketData != nil { oiCacheManager.Update(symbol, OICurrent, now) }
UpdateOICache ==
    /\ InPass /\ step = "update"
    /\ IF Deref(result).MarketData # Nil
       THEN /\ caches' = Update(caches, maxSize, CurrentSymbol,
                                Deref(Deref(result).MarketData).OICurrent, clock)
            /\ tags' = Update(tags, maxSize, CurrentSymbol, OwnTag, clock)
            /\ updatesInPass' = [updatesInPass EXCEPT ![CurrentSymbol] = @ + 1]
       ELSE UNCHANGED <<caches, tags, updatesInPass>>
    /\ step' = "emit"
    /\ UNCHANGED <<heapVars, apiVars, cfg, pc, ai, si, klines, indicatorOICache, result, maxSize, calls,
                   pipeVars, envVars, readTags, passNo, outcome, okCount, errCount>>

\* outputIndicators(result, accountID, strategy), then the next symbol
OutputIndicators ==
    /\ InPass /\ step = "emit"
    /\ outcome' = [outcome EXCEPT ![CurrentSymbol] = "emitted"]
    /\ okCount' = [okCount EXCEPT ![CurrentSymbol] =
                      IF Deref(result).MarketData # Nil THEN @ + 1 ELSE @]
    /\ si' = si + 1
    /\ step' = "klines"
    /\ result' = Nil /\ indicatorOICache' = Nil /\ readTags' = <<>>
    /\ UNCHANGED <<heapVars, apiVars, cfg, pc, ai, klines, cacheVars, pipeVars, envVars,
                   tags, passNo, updatesInPass, errCount>>

\* the symbol loop is over
SymbolLoopEnd ==
    /\ InPass /\ step = "klines" /\ si > Len(Symbols)
    /\ step' = "ret"
    /\ UNCHANGED <<heapVars, apiVars, cfg, pc, ai, si, klines, indicatorOICache, result,
                   cacheVars, pipeVars, envVars, histVars>>

\* process...Strategy returns to the account loop
ProcessReturn ==
    /\ InPass /\ step = "ret"
    /\ step' = "acct" /\ ai' = ai + 1
    /\ outcome' = EveryCount("none")
    /\ UNCHANGED <<heapVars, apiVars, cfg, pc, si, klines, indicatorOICache, result,
                   cacheVars, pipeVars, envVars,
                   tags, readTags, passNo, updatesInPass, okCount, errCount>>

\* ---- the select of the main loop
MainInSelectOrTickPass == pc \in {"select", "short", "long"}

\* main is blocked in the select: the only place where a tick or the signal
\* is received
MainInSelect == pc = "select"

StartPass(p) ==
    /\ pc' = p /\ step' = "acct" /\ ai' = 1
    /\ passNo' = passNo + 1
    /\ UNCHANGED <<heapVars, apiVars, cfg, si, klines, indicatorOICache, result, cacheVars, pipeVars,
                   sigPending, notified, tickersArmed, clock,
                   tags, readTags, outcome, updatesInPass, okCount, errCount>>

SelectShortTick ==
    /\ MainInSelect /\ shortPending
    /\ shortPending' = FALSE
    /\ UNCHANGED longPending
    /\ StartPass("short")

SelectLongTick ==
    /\ MainInSelect /\ longPending
    /\ longPending' = FALSE
    /\ UNCHANGED shortPending
    /\ StartPass("long")

\* case sig := <-sigChan: main returns, the deferred Stop calls run
SelectSignal ==
    /\ MainInSelect /\ sigPending
    /\ sigPending' = FALSE
    /\ pc' = "exited"
    /\ tickersArmed' = FALSE
    /\ UNCHANGED <<heapVars, apiVars, cfg, step, ai, si, klines, indicatorOICache, result,
                   cacheVars, pipeVars, shortPending, longPending, notified, clock,
                   histVars>>

\* ---- the environment
\* one poll interval of the short ticker elapses: the short ticker fires,
\* the long ticker every third time; a tick is dropped when one is waiting.
\* Nothing in a pass reads the ticker channels, so a tick that arrives during
\* a tick pass is modelled as arriving when main is back in the select; during
\* the initial pass ticks arrive between two process...Strategy calls.
TimePasses ==
    /\ tickersArmed /\ clock < MaxClock
    /\ pc = "select" \/ (pc = "initial" /\ step = "acct")
    /\ clock' = clock + 1
    /\ shortPending' = TRUE
    /\ longPending' = (longPending \/ (clock + 1) % LongEvery = 0)
    /\ UNCHANGED <<heapVars, apiVars, mainVars, cacheVars, pipeVars, sigPending, notified, tickersArmed,
                   histVars>>

\* SIGINT or SIGTERM arrives: queued in sigChan once signal.Notify was
\* called, before that the Go runtime ends the process
SignalArrives ==
    /\ pc \in {"initial", "select", "short", "long"}
    /\ ~sigPending
    /\ IF notified
       THEN /\ sigPending' = TRUE
            /\ UNCHANGED <<pc, tickersArmed>>
       ELSE /\ pc' = "killed"
            /\ tickersArmed' = FALSE
            /\ UNCHANGED sigPending
    /\ UNCHANGED <<heapVars, apiVars, cfg, step, ai, si, klines, indicatorOICache, result,
                   cacheVars, pipeVars, shortPending, longPending, notified, clock,
                   histVars>>

NextSched ==
    \/ AccountSkip \/ AccountProcess \/ PassEnd
    \/ FetchKlines \/ GetOICache \/ Calculate \/ UpdateOICache \/ OutputIndicators
    \/ SymbolLoopEnd \/ ProcessReturn
    \/ SelectShortTick \/ SelectLongTick \/ SelectSignal
    \/ TimePasses \/ SignalArrives

SpecSched == InitSched /\ [][NextSched]_vars

\* =========================================================================
\* main: the select loop with tickers that never stop firing, under the
\* fairness of the Go scheduler and of select
\* =========================================================================
\* the state after signal.Notify: main enters the select loop
InitLive ==
    /\ cfg \in Configs
    /\ caches  = NewOICacheManager(DefaultMaxSize).caches
    /\ maxSize = NewOICacheManager(DefaultMaxSize).maxSize
    /\ calls = [k \in Keys |-> <<>>]
    /\ PipeIdle
    /\ ApiIdle
    /\ HeapIdle
    /\ pc = "select" /\ step = "acct" /\ ai = 1 /\ si = 1
    /\ klines = <<>> /\ indicatorOICache = Nil /\ result = Nil
    /\ shortPending = FALSE /\ longPending = FALSE /\ sigPending = FALSE
    /\ notified = TRUE /\ tickersArmed = TRUE /\ clock = 0
    /\ tags = <<>> /\ readTags = <<>> /\ passNo = 0
    /\ outcome = EveryCount("none")
    /\ updatesInPass = EveryCount(0)
    /\ okCount = EveryCount(0)
    /\ errCount = 0

\* the short ticker fires, at any time while it is not stopped: its channel
\* holds one tick, a tick that finds it full is dropped
ShortTickerFires ==
    /\ tickersArmed /\ ~shortPending
    /\ shortPending' = TRUE
    /\ UNCHANGED <<heapVars, apiVars, mainVars, cacheVars, pipeVars, histVars,
                   longPending, sigPending, notified, tickersArmed, clock>>

LongTickerFires ==
    /\ tickersArmed /\ ~longPending
    /\ longPending' = TRUE
    /\ UNCHANGED <<heapVars, apiVars, mainVars, cacheVars, pipeVars, histVars,
                   shortPending, sigPending, notified, tickersArmed, clock>>

\* case <-shortTermTicker.C / case <-longTermTicker.C: the account loop of
\* the class starts
ReceiveShortTick ==
    /\ MainInSelect /\ shortPending
    /\ shortPending' = FALSE
    /\ pc' = "short" /\ step' = "acct" /\ ai' = 1
    /\ UNCHANGED <<heapVars, apiVars, cfg, si, klines, indicatorOICache, result, cacheVars,
                   pipeVars, histVars,
                   longPending, sigPending, notified, tickersArmed, clock>>

ReceiveLongTick ==
    /\ MainInSelect /\ longPending
    /\ longPending' = FALSE
    /\ pc' = "long" /\ step' = "acct" /\ ai' = 1
    /\ UNCHANGED <<heapVars, apiVars, cfg, si, klines, indicatorOICache, result, cacheVars,
                   pipeVars, histVars,
                   shortPending, sigPending, notified, tickersArmed, clock>>

\* one iteration of the symbol loop, from the three GetKlines calls to the
\* `continue` or to outputIndicators: it ends, and the loop goes on with the
\* next symbol (what it does to the cache is the subject of SpecSched)
PairDone ==
    /\ InPass /\ step = "klines" /\ si <= Len(Symbols)
    /\ si' = si + 1
    /\ UNCHANGED <<heapVars, apiVars, cfg, pc, step, ai, klines, indicatorOICache, result,
                   cacheVars, pipeVars, envVars, histVars>>

NextLive ==
    \/ AccountSkip \/ AccountProcess \/ PassEnd
    \/ PairDone \/ SymbolLoopEnd \/ ProcessReturn
    \/ ReceiveShortTick \/ ReceiveLongTick \/ SelectSignal
    \/ ShortTickerFires \/ LongTickerFires \/ SignalArrives

\* the main goroutine is scheduled and every call of a pass returns
PassFairness ==
    WF_vars(AccountSkip \/ AccountProcess \/ PassEnd
            \/ PairDone \/ SymbolLoopEnd \/ ProcessReturn)

SelectFairnessWeak == WF_vars(SelectSignal)

\* select chooses among its ready cases at random: a case that is ready
\* every time main comes back to the select is chosen at some point
SelectFairness == SF_vars(SelectSignal)

SpecLive == InitLive /\ [][NextLive]_vars /\ PassFairness /\ SelectFairness

\* ---- C1
\* the values of the last n calls of a log, newest call first
RECURSIVE NewestFirst(_, _)
NewestFirst(log, n) ==
    IF n = 0 \/ log = <<>> THEN <<>>
    ELSE <<log[Len(log)].oi>> \o NewestFirst(SubSeq(log, 1, Len(log) - 1), n - 1)

\* C1: for every key and every sequence of Update calls, whatever the
\* timestamps, Get(key) holds at most maxSize entries and its History is the
\* values of the last min(n, maxSize) Update calls of the key, newest first
\* (nil exactly when the key was never updated).
C1_BoundedNewestFirst ==
    \A k \in Keys :
        LET p == Get(caches, k)
            n == Len(calls[k])
        IN  IF n = 0 THEN p = Nil
            ELSE /\ p # Nil
                 /\ Len(Deref(p).History) <= maxSize
                 /\ Deref(p).History = NewestFirst(calls[k], Min(n, maxSize))

\* a key updated more often than maxSize, with two different values among the calls
C1_Witness ==
    \E k \in Keys :
        /\ Len(calls[k]) > maxSize
        /\ maxSize >= 2
        /\ Get(caches, k) # Nil
        /\ Deref(Get(caches, k)).History[1] # Deref(Get(caches, k)).History[2]
        /\ calls[k][1].ts > calls[k][2].ts

\* ---- C2, C3, C5: one call of the pipeline
HistLen(oiCache) == IF oiCache = Nil THEN 0 ELSE Len(Deref(oiCache).History)
KlinesSufficient == pin.n1 >= MinKlines /\ pin.n2 >= MinKlines /\ pin.n3 >= MinKlines
AugmentationFails == pin.resp.oi.kind # "ok" \/ pin.resp.premium.kind # "ok"

\* the MarketData the call produced, nil when it produced none
MarketDataOf(out) ==
    IF out.state # "returned" \/ out.result = Nil THEN Nil
    ELSE IF out.fn = "market" THEN out.result
    ELSE Deref(out.result).MarketData

\* C2: in the MarketData returned by CalculateMarketData for a history of
\* length k, the change of lookback offset o in {0, 2, 4} (OIChange5m,
\* OIChange15m, OIChange25m) is present if and only if k >= o + 1.
C2_OffsetPresentIffLongEnough ==
    (pout.fn = "market" /\ pout.state = "returned" /\ pout.result # Nil) =>
        LET md == Deref(pout.result)
            k  == HistLen(pin.oiCache)
        IN  /\ (md.OIChange5m  # Nil) <=> (k >= 1)
            /\ (md.OIChange15m # Nil) <=> (k >= 3)
            /\ (md.OIChange25m # Nil) <=> (k >= 5)

\* C3: with at least 55 candles in each of the three series and a failing
\* market-data augmentation, the ...WithMarket functions return normally a
\* snapshot with its three timeframe blocks and without MarketData.
C3_AugmentationFailureKeepsIndicators ==
    (pout.fn \in {"short", "long"} /\ KlinesSufficient /\ AugmentationFails) =>
        /\ pout.state = "returned"
        /\ pout.result # Nil
        /\ Deref(pout.result).MarketData = Nil
        /\ \A i \in 1..3 : Deref(pout.result).Timeframes[i] # Nil

\* C5 as stated: a MarketData record is present only when the open-interest
\* fetch, the current funding-rate fetch and the funding-rate history fetch
\* all succeeded.
C5_AnyFetchErrorDropsMarketData ==
    (MarketDataOf(pout) # Nil) =>
        /\ pin.resp.oi.kind # "err"
        /\ pin.resp.premium.kind # "err"
        /\ pin.resp.hist.kind # "err"

\* C5 amended: CalculateMarketData returns a MarketData record exactly when
\* the open interest and the current funding rate were both fetched and
\* parsed; a failure of the funding-rate history fetch alone keeps the
\* record, with FundingAvg3 = 0.
C5_MarketDataIffOIAndCurrentFunding ==
    LET md == MarketDataOf(pout)
        ok == pin.resp.oi.kind = "ok" /\ pin.resp.premium.kind = "ok"
    IN  /\ (pout.fn = "market" /\ pout.state = "returned") => ((md # Nil) <=> ok)
        /\ (md # Nil) => ok
        /\ (md # Nil /\ pin.resp.hist.kind = "err") => Deref(md).FundingAvg3 = 0

\* the history fetch failed alone and the record is there
C5_Witness ==
    /\ pout.fn = "market"
    /\ pout.state = "returned"
    /\ pin.resp.hist.kind = "err"
    /\ pout.result # Nil
    /\ Deref(pout.result).FundingAvg3 = 0
    /\ Deref(pout.result).FundingRate # 0

\* ---- C4, C6 .. C10: the scheduler
\* the snapshot of the current pair and its market data, once computed
PairSnapshot   == Deref(result)
PairMarketData == Deref(PairSnapshot.MarketData)

\* C4: no per-pair error (candle fetch error, fewer than 55 candles,
\* open-interest or funding fetch error) makes the scheduler panic or exit:
\* unless a signal ended the process, after such an error main still runs and
\* both tickers are armed.
C4_PairErrorNeverStopsScheduler ==
    (errCount > 0 /\ pc \notin {"exited", "killed"}) =>
        (pc \in {"initial", "select", "short", "long"} /\ tickersArmed)

\* C6: when process...Strategy returns, every symbol of the pool was
\* processed: a symbol skipped for a candle-fetch failure or for too few
\* candles did not keep any other symbol from emitting its snapshot.
C6_SkipOnlyThatSymbol ==
    (InPass /\ step = "ret") =>
        \A s \in SymbolSet : outcome[s] \in {"klineErr", "insufficient", "emitted"}

\* the first symbol was skipped and the second one emitted in the same call
C6_Witness ==
    /\ InPass /\ step = "ret"
    /\ outcome[Symbols[1]] \in {"klineErr", "insufficient"}
    /\ outcome[Symbols[2]] = "emitted"

\* C7: the cache changes only in the update step of a pair, after the pair's
\* change rates were computed: the history the rates were computed from is
\* the history of the symbol before the update, the history after it is the
\* fresh value put in front of that, and the pair's own sample is not among
\* the samples it read.
C7_UpdateAfterRead ==
    [][caches' # caches =>
          /\ InPass /\ step = "update"
          /\ result # Nil /\ PairSnapshot.MarketData # Nil
          /\ PairMarketData.OIHistory = HistoryOf(caches, CurrentSymbol)
          /\ HistoryOf(caches', CurrentSymbol)
                = Prefix(<<PairMarketData.OICurrent>> \o PairMarketData.OIHistory, maxSize)
          /\ \A i \in 1..Len(readTags) : readTags[i] # OwnTag
      ]_vars

\* a pair with change rates computed from two earlier samples was updated
C7_Witness ==
    /\ InPass /\ step = "emit"
    /\ PairSnapshot.MarketData # Nil
    /\ Len(PairMarketData.OIHistory) >= 2
    /\ PairMarketData.OIChange5m # Nil
    /\ PairMarketData.OIHistory[1] # PairMarketData.OICurrent
    /\ HistoryOf(caches, CurrentSymbol)
          = <<PairMarketData.OICurrent>> \o PairMarketData.OIHistory

\* C8: with one enabled account and an empty cache at start, the snapshots
\* of the first pass have every OI change absent, and a snapshot of a later
\* pass, for a symbol whose market data was fetched in every earlier pass,
\* has OIChange5m present.
C8_PopulatedFromSecondPass ==
    (InPass /\ step = "emit" /\ Len(GetEnabledAccounts(cfg)) = 1
       /\ PairSnapshot.MarketData # Nil) =>
        /\ passNo = 0 =>
              /\ PairMarketData.OIChange5m = Nil
              /\ PairMarketData.OIChange15m = Nil
              /\ PairMarketData.OIChange25m = Nil
              /\ PairMarketData.OIChange45m = Nil
              /\ PairMarketData.OIChange75m = Nil
        /\ (passNo >= 1 /\ okCount[CurrentSymbol] = passNo) =>
              PairMarketData.OIChange5m # Nil

\* C9: in a single pass (a tick or the initial pass) Update is called at most
\* once per symbol, whatever the number of enabled accounts.
C9_OneUpdatePerSymbolPerPass ==
    \A s \in SymbolSet : updatesInPass[s] <= 1

\* C10: the history a pair reads to compute its change rates holds only
\* samples written by passes of the account's own strategy class.
C10_HistoryOfOwnClassOnly ==
    (InPass /\ step = "calc") =>
        \A i \in 1..Len(readTags) : readTags[i].cls = CurrentAccount.Strategy

\* ---- C11, C12: concurrent callers of the cache manager
\* C11: what Get returned is a snapshot: the History and the Timestamps its
\* holder reads afterwards are those of the cache when Get returned, whatever
\* Update runs meanwhile (so they have one length and come from one state).
C11_GetReturnsSnapshot ==
    \A g \in DOMAIN gs :
        (g \in Readers /\ gs[g].pc = "seen") =>
            /\ gs[g].History    = Deref(gs[g].cache).History
            /\ gs[g].Timestamps = Deref(gs[g].cache).Timestamps

\* C12: whenever no Update holds the lock, the history of every key is the
\* newest-first sequence of the last min(n, maxSize) Update calls for the key
\* in the order they took the lock, value and timestamp of one slot coming
\* from one call.
C12_NoLostUpdate ==
    (gs # <<>> /\ mu = "") =>
        \A k \in Keys :
            LET n == Len(calls[k])
                kept == Min(n, maxSize)
            IN  IF n = 0 THEN ~HasKey(caches, k)
                ELSE /\ HasKey(caches, k)
                     /\ Len(caches[k].History) = kept
                     /\ Len(caches[k].Timestamps) = kept
                     /\ \A i \in 1..kept :
                           /\ caches[k].History[i]    = calls[k][n - i + 1].oi
                           /\ caches[k].Timestamps[i] = calls[k][n - i + 1].ts

\* two goroutines updated one key, more often than the bound, and all returned
C12_Witness ==
    /\ gs # <<>> /\ mu = ""
    /\ \A g \in Writers : gs[g].pc = "idle"
    /\ \E k \in Keys :
          /\ Len(calls[k]) > maxSize
          /\ \E i, j \in 1..Len(calls[k]) : calls[k][i].oi < 20 /\ calls[k][j].oi > 20

\* ---- C13: the base indicator functions
\* C13: CalculateShortTermIndicators and CalculateLongTermIndicators return
\* nil when one of the three series has fewer than 55 candles, and otherwise
\* a snapshot whose three timeframe blocks are all there; never a partial one.
C13_AllOrNothing ==
    (pout.fn \in {"shortBase", "longBase"}) =>
        /\ pout.state = "returned"
        /\ (pout.result = Nil) <=> ~KlinesSufficient
        /\ (pout.result # Nil) =>
              \A i \in 1..3 : Deref(pout.result).Timeframes[i] # Nil

\* only the third series is short and the call returned nil
C13_Witness ==
    /\ pout.fn = "shortBase"
    /\ pin.n1 >= MinKlines /\ pin.n2 >= MinKlines /\ pin.n3 = MinKlines - 1
    /\ pout.result = Nil

\* ---- C14 .. C16: start, shutdown and fan-out of the scheduler
\* C14: the initial pass is over before a timer is armed, so the first tick
\* comes a full interval after its end: while the initial pass runs no tick
\* of either ticker becomes pending.
C14_NoTickDuringInitialPass ==
    (pc = "initial") => (~shortPending /\ ~longPending)

\* C15: once a shutdown signal was delivered to the scheduler no further tick
\* is serviced: the select starts no pass while the signal waits in sigChan,
\* even when a tick is pending too.
C15_NoPassAfterSignal ==
    [][(sigPending /\ pc = "select") => pc' \notin {"short", "long"}]_vars

\* the strategy class of the running tick pass
TickClass == IF pc = "short" THEN "short_term" ELSE "long_term"

\* C16: in a tick pass the account being processed is an enabled account of
\* the configuration whose strategy is the class of the tick; an account is
\* passed over only when its strategy is the other class; the accounts are
\* taken in order up to the last one, and for each processed account the
\* symbols are taken in order, from the first to the last of the pool.
C16_TickProcessesItsClass ==
    [][(pc \in {"short", "long"}) =>
          /\ (step # "acct") =>
                /\ CurrentAccount.Enabled
                /\ CurrentAccount.Strategy = TickClass
                /\ \E i \in 1..Len(cfg) : cfg[i] = CurrentAccount
          /\ (step = "acct" /\ step' = "acct" /\ ai' # ai) =>
                /\ ai' = ai + 1
                /\ CurrentAccount.Strategy # TickClass
          /\ (step = "acct" /\ step' # "acct") => (si' = 1 /\ ai' = ai)
          /\ (step # "acct" /\ pc' = pc /\ si' # si) => si' = si + 1
          /\ (step' = "ret") => si' = Len(Symbols) + 1
          /\ (step = "ret" /\ step' # "ret") => ai' = ai + 1
          /\ (pc' = "select") =>
                ai = Cardinality({i \in 1..Len(cfg) : cfg[i].Enabled}) + 1
      ]_vars

\* a long tick, with accounts of both classes enabled: the long_term account,
\* second in the list, was processed over the whole pool
C16_Witness ==
    /\ pc = "long" /\ step = "ret"
    /\ Len(GetEnabledAccounts(cfg)) = 2
    /\ ai = 2
    /\ \A s \in SymbolSet : outcome[s] = "emitted"

\* ---- C17 .. C19: expiry and statistics of the cache manager
\* whether the cache of a key, in map m, is empty or its most recently
\* inserted entry is more than maxAge seconds before `current`
Stale(m, k, maxAge, current) ==
    \/ Len(m[k].Timestamps) = 0
    \/ current - m[k].Timestamps[1] > maxAge

\* C17: IsExpired(key, maxAge) is true when the key is unknown, has no
\* entries, or its most recently inserted entry is more than maxAge seconds
\* old, and false otherwise, an age equal to maxAge included.
C17_IsExpired ==
    (ret.op = "IsExpired") =>
        /\ ret.value \in BOOLEAN
        /\ ret.value <=> \/ ret.symbol \notin DOMAIN caches
                         \/ Stale(caches, ret.symbol, ret.maxAge, ret.current)
        /\ (/\ ret.symbol \in DOMAIN caches
            /\ Len(caches[ret.symbol].Timestamps) > 0
            /\ ret.current - caches[ret.symbol].Timestamps[1] = ret.maxAge)
              => ret.value = FALSE

\* a key whose most recently inserted entry is exactly maxAge = 1 second old,
\* with an older entry inserted before it, is not expired
C17_Witness ==
    /\ ret.op = "IsExpired" /\ ret.maxAge = 1
    /\ ret.symbol \in DOMAIN caches
    /\ Len(caches[ret.symbol].Timestamps) >= 2
    /\ ret.current - caches[ret.symbol].Timestamps[1] = 1
    /\ ret.current - caches[ret.symbol].Timestamps[2] > 1
    /\ ret.value = FALSE

\* C18: CleanExpired(maxAge) removes exactly the keys that are empty or whose
\* newest entry is older than maxAge, returns how many it removed, leaves the
\* other keys as they were, and afterwards no remaining key is expired.
C18_CleanExpired ==
    (ret.op = "CleanExpired") =>
        /\ DOMAIN caches = {k \in DOMAIN ret.before :
                               ~Stale(ret.before, k, ret.maxAge, ret.current)}
        /\ ret.value = Cardinality((DOMAIN ret.before) \ (DOMAIN caches))
        /\ \A k \in DOMAIN caches : caches[k] = ret.before[k]
        /\ \A k \in DOMAIN caches : ~IsExpired(caches, k, ret.maxAge, ret.current)

\* of two keys the stale one was removed and the fresh one kept
C18_Witness ==
    /\ ret.op = "CleanExpired"
    /\ Cardinality(DOMAIN ret.before) = 2
    /\ Cardinality(DOMAIN caches) = 1
    /\ ret.value = 1

\* C19: GetStats reports the number of keys, the sum of the history lengths
\* and the bound the manager was created with (5 for an argument <= 0), and
\* total_records <= symbol_count * max_size.
C19_GetStats ==
    (ret.op = "GetStats") =>
        /\ ret.value.symbol_count = Cardinality(DOMAIN caches)
        /\ ret.value.total_records =
              Len(IF "BTCUSDT" \in DOMAIN caches THEN caches["BTCUSDT"].History ELSE <<>>)
            + Len(IF "ETHUSDT" \in DOMAIN caches THEN caches["ETHUSDT"].History ELSE <<>>)
        /\ ret.value.max_size = IF ret.size <= 0 THEN 5 ELSE ret.size
        /\ ret.value.total_records <= ret.value.symbol_count * ret.value.max_size

\* statistics of a key that was cut to the bound
C19_Witness ==
    /\ ret.op = "GetStats"
    /\ ret.size = 2
    /\ ret.value.symbol_count = 1
    /\ ret.value.total_records = 2
    /\ \E k \in DOMAIN caches : Len(calls[k]) > 2

\* ---- C20: the change rate
\* C20: calculateOIChangeRate returns 0 when previous is 0, whatever the
\* current value, and (current - previous) / previous * 100 for a non-zero
\* previous, on inputs where that quotient has no more than two decimals.
\* With the result r in hundredths of a percent, current c in whole USD and
\* previous p in hundredths of a million USD, r = (c - 10000 p) / p.
C20_ChangeRate ==
    (pout.fn = "rate") =>
        /\ pin.previous = 0 => pout.result = 0
        /\ (/\ pin.previous # 0
            /\ (pin.current - 10000 * pin.previous) % Abs(pin.previous) = 0)
              => pout.result * pin.previous = pin.current - 10000 * pin.previous

\* 3.00 million against 1.25 million before: +140.00 percent
C20_Witness ==
    /\ pout.fn = "rate"
    /\ pin.current = 3000000 /\ pin.previous = 125
    /\ pout.result = 14000

\* ---- C21, C23: aliasing of the cache's slices and objects
\* C21: the OIHistory of a snapshot shows, after every later Update, the
\* elements it showed when the snapshot was built, for the snapshot of the
\* pair in progress and for every snapshot already emitted.
C21_EmittedHistoryImmutable ==
    (held # <<>>) =>
        /\ \A i \in 1..Len(held.emitted) :
              View(heap, held.emitted[i].OIHistory) = held.emitted[i].seen
        /\ (held.snapshot # Nil) =>
              View(heap, Deref(held.snapshot).OIHistory) = Deref(held.snapshot).seen

\* a snapshot with a history of two entries was emitted; the Update of its
\* pair put a new value in front and cut the cache's history to the bound
C21_Witness ==
    /\ held # <<>>
    /\ \E i \in 1..Len(held.emitted) :
          /\ held.emitted[i].OIHistory.len = 2
          /\ held.emitted[i].Symbol \in DOMAIN heap.table
          /\ LET cur == View(heap, heap.objs[heap.table[held.emitted[i].Symbol]].History)
             IN  /\ Len(cur) = 2
                 /\ cur[2] = held.emitted[i].seen[1]
                 /\ cur[1] # held.emitted[i].seen[1]

\* C23: nothing the caller does through the map GetAll returned (adding or
\* deleting entries, assigning the History of an entry) changes what the
\* manager shows through Get and GetStats.
C23_GetAllReturnsCopy ==
    [][(held # <<>> /\ held'.last \in {"callerDelete", "callerAdd", "callerWrite"})
          => ManagerView(heap') = ManagerView(heap)]_vars

\* ---- C22, C29: the symbol pool
\* the pairs the external source contributed: those with a name and a score
\* of at least minScore, when the source is used and answered with success
ExternalPairs ==
    IF pin.useExternal /\ pin.externalURL # ""
       /\ pin.answer.kind = "response" /\ pin.answer.Success
    THEN {c.Pair : c \in {d \in Range(pin.answer.TopCoins) \cup Range(pin.answer.BottomCoins) :
                             d.Pair # "" /\ d.Score >= pin.minScore}}
    ELSE {}

NoDuplicates(q) == \A i, j \in 1..Len(q) : q[i] = q[j] => i = j

C29_ExternalFailureIsNotFatal ==
    (/\ pout.fn = "pool"
     /\ pin.useExternal /\ pin.externalURL # ""
     /\ (pin.answer.kind # "response" \/ ~pin.answer.Success)) =>
        /\ pout.result.err = Nil
        /\ NoDuplicates(pout.result.symbols)
        /\ Range(pout.result.symbols) = Range(pin.defaultSymbols) \ Range(pin.excludeSymbols)
        /\ Range(pout.result.symbols)
              = SymbolMap(pin.defaultSymbols, pin.excludeSymbols, pin.externalURL,
                          FALSE, pin.minScore, pin.answer)

\* success = false with coins in the body: only the default symbol is returned
C29_Witness ==
    /\ pout.fn = "pool"
    /\ pin.useExternal /\ pin.externalURL # ""
    /\ pin.answer.kind = "response" /\ ~pin.answer.Success
    /\ pin.answer.BottomCoins = <<CoinInfo("ETHUSDT", 90)>>
    /\ pin.defaultSymbols = <<"BTCUSDT">>
    /\ pin.excludeSymbols = <<>>
    /\ pout.result.symbols = <<"BTCUSDT">>
    /\ pout.result.err = Nil

\* ---- C28: the clients main creates
AccountByID(id) ==
    CHOOSE a \in Range(GetEnabledAccounts(pin.Accounts)) : a.ID = id

\* C28: every client main creates for an enabled account has the futures
\* URL as its base URL and the account's API key and API secret as its
\* credentials.
C28_ClientHasAccountCredentials ==
    (pout.fn = "clients" /\ pin # <<>>) =>
        \A id \in DOMAIN pout.result.clients :
            LET client == pout.result.clients[id]
            IN  /\ client.baseURL = pin.FuturesURL
                /\ client.apiKey = AccountByID(id).APIKey
                /\ client.apiSecret = AccountByID(id).APISecret

C26_HistoryAndTimestampsAligned ==
    (ret # <<>>) =>
        \A k \in DOMAIN caches :
            /\ Len(caches[k].History) = Len(caches[k].Timestamps)
            /\ Len(caches[k].History) >= 1
            /\ Len(caches[k].History) <= maxSize
            /\ \A i \in 1..Len(caches[k].History) :
                  \E j \in 1..Len(calls[k]) :
                      calls[k][j] = [oi |-> caches[k].History[i],
                                     ts |-> caches[k].Timestamps[i]]

\* three Updates of one key with maxSize 2: the oldest pair was dropped
C26_Witness ==
    /\ ret # <<>>
    /\ maxSize = 2
    /\ \E k \in DOMAIN caches :
          /\ Len(calls[k]) = 3
          /\ Len(caches[k].History) = 2
          /\ caches[k].Timestamps[1] # caches[k].Timestamps[2]

\* ---- C24: one pass at a time
\* C24: the passes run one at a time on the main goroutine. A tick pass
\* starts only from the select, a pass is left only at the end of its account
\* loop (or when the process ends), and between the Get and the Update of a
\* pair nothing else touches the cache: what the pair read is still the
\* history of its symbol when it updates.
C24_OnePassAtATime ==
    /\ [](InPass /\ step \in {"calc", "update"} =>
             /\ Deref(indicatorOICache).History = HistoryOf(caches, CurrentSymbol)
             /\ readTags = HistoryOf(tags, CurrentSymbol))
    /\ [][/\ (pc' # pc /\ pc' \in {"short", "long"}) => pc = "select"
          /\ (pc' # pc /\ InPass) =>
                \/ pc' = "select" /\ step = "acct" /\ ai > Len(GetEnabledAccounts(cfg))
                \/ pc' \in {"panicked", "killed"}
          /\ (InPass /\ step \in {"get", "calc", "update"} /\ pc' \notin {"panicked", "killed"}) =>
                /\ pc' = pc /\ ai' = ai
                /\ step' \in {"get", "calc", "update", "emit"} \/ (step = "calc" /\ step' = "klines")
                /\ caches' # caches =>
                      /\ step = "update"
                      /\ \A k \in SymbolSet \ {CurrentSymbol} :
                            HistoryOf(caches', k) = HistoryOf(caches, k)
         ]_vars

\* a short pass is between the Get and the Update of a pair while a tick of
\* the long ticker waits
C24_Witness ==
    /\ pc = "short" /\ step = "update"
    /\ longPending
    /\ Len(HistoryOf(caches, CurrentSymbol)) >= 1

\* ---- C25: a pair without market data
InsufficientKlines == \E i \in 1..Len(klines) : klines[i] < MinKlines

\* C25: a pair whose candle fetch fails or that has a series shorter than 55
\* candles is skipped without an Update, a pair that panics makes none, and
\* the cache changes only in the Update of a pair whose snapshot has
\* MarketData, for the symbol of that pair only.
C25_NoMarketDataNoUpdate ==
    [][/\ (/\ InPass /\ step \in {"klines", "calc"} /\ si <= Len(Symbols)
           /\ outcome' # outcome
           /\ outcome'[Symbols[si]] \in {"klineErr", "insufficient"}) =>
              /\ caches' = caches
              /\ step' = "klines" /\ si' = si + 1
       /\ (InPass /\ step = "calc" /\ InsufficientKlines) =>
              /\ step' # "update"
              /\ caches' = caches
       /\ (pc' = "panicked") => caches' = caches
       /\ (caches' # caches) =>
              /\ InPass /\ step = "update"
              /\ result # Nil /\ Deref(result).MarketData # Nil
              /\ \A k \in SymbolSet \ {CurrentSymbol} :
                    HistoryOf(caches', k) = HistoryOf(caches, k)
      ]_vars

\* a pair was skipped for a symbol that has a history, which is still there
C25_Witness ==
    /\ InPass /\ step = "klines"
    /\ \E s \in SymbolSet :
          /\ outcome[s] \in {"klineErr", "insufficient"}
          /\ Len(HistoryOf(caches, s)) >= 1
          /\ HistoryOf(tags, s)[1].pass < passNo

\* ---- C30: the shutdown signal is handled
\* C30: with passes that terminate and a fair select, a signal waiting in
\* sigChan is eventually received and main returns, although the tickers keep
\* firing while it waits.
C30_SignalEventuallyHandled == sigPending ~> (pc = "exited")

\* main has returned on the signal while both tickers had a tick waiting:
\* the select chose the signal among three ready cases
C30_Witness ==
    /\ pc = "exited"
    /\ notified /\ ~sigPending
    /\ shortPending /\ longPending

====
